---- MODULE Spec2Model ----
(***************************************************************************)
(* Model of the xid identifier generator and its base-32 codec             *)
(* (src/src/xid.rs, src/src/lib.rs).                                       *)
(*                                                                         *)
(* An Xid is a sequence of SIZEOF_RAW bytes, a string buffer a sequence of *)
(* SIZEOF_STR bytes (ASCII codes).  Sequences are 1-based; At(s, i) reads  *)
(* them with the 0-based indices of the source.                            *)
(***************************************************************************)
EXTENDS Integers, Sequences, FiniteSets, TLC

SIZEOF_RAW == 12
SIZEOF_STR == 20

\* Integer widths.  A u32 is the pair <<h, l>> of its high and low 16 bits
\* (TLC's integers are 32-bit signed); a u64 count of seconds is the triple
\* <<e, h, l>> whose first component is the bits above bit 31.
U8  == 256
U16 == 65536
U24 == 16777216

(* ---------------- u8 arithmetic, as Rust evaluates it ------------------ *)

RECURSIVE Pow2(_)
Pow2(n) == IF n = 0 THEN 1 ELSE 2 * Pow2(n - 1)

RECURSIVE BitAnd(_, _)
BitAnd(a, b) ==
  IF a = 0 \/ b = 0 THEN 0
  ELSE (a % 2) * (b % 2) + 2 * BitAnd(a \div 2, b \div 2)

RECURSIVE BitOr(_, _)
BitOr(a, b) ==
  IF a = 0 THEN b
  ELSE IF b = 0 THEN a
  ELSE (IF a % 2 = 1 \/ b % 2 = 1 THEN 1 ELSE 0) + 2 * BitOr(a \div 2, b \div 2)

RECURSIVE BitXor(_, _)
BitXor(a, b) ==
  IF a = 0 THEN b
  ELSE IF b = 0 THEN a
  ELSE ((a + b) % 2) + 2 * BitXor(a \div 2, b \div 2)

\* x >> n and x << n on a u8: the left shift drops the bits above bit 7.
Shr(x, n) == x \div Pow2(n)
Shl8(x, n) == (x * Pow2(n)) % U8

At(s, i) == s[i + 1]

(* ---------------- u32 arithmetic --------------------------------------- *)

\* (x >> 24) as u8, (x >> 16) as u8, (x >> 8) as u8, x as u8.
Byte3(x) == x[1] \div U8
Byte2(x) == x[1] % U8
Byte1(x) == x[2] \div U8
Byte0(x) == x[2] % U8

\* The low 24 bits of a u32, as a number.
Low24(x) == (x[1] % U8) * U16 + x[2]

U32Max == << U16 - 1, U16 - 1 >>

\* Wrapping addition of two u32.
WrappingAdd(x, y) ==
  << (x[1] + y[1] + ((x[2] + y[2]) \div U16)) % U16, (x[2] + y[2]) % U16 >>

\* Whether x + y exceeds u32::MAX.
Overflows(x, y) == x[1] + y[1] + ((x[2] + y[2]) \div U16) >= U16

\* u64 as u32: the bits above bit 31 are dropped.
AsU32(secs) == << secs[2], secs[3] >>

(* ---------------- the alphabet and its inverse table ------------------- *)

\* Variant: the RFC 4648 alphabet "abcdefghijklmnopqrstuvwxyz234567", whose
\* digits follow its letters.
ENCODING_rfc4648 ==
  << 97, 98, 99, 100, 101, 102, 103, 104, 105, 106, 107, 108, 109,
     110, 111, 112, 113, 114, 115, 116, 117, 118, 119, 120, 121, 122,
     50, 51, 52, 53, 54, 55 >>

\* b"0123456789abcdefghijklmnopqrstuv" as ASCII codes.
ENCODING ==
  << 48, 49, 50, 51, 52, 53, 54, 55, 56, 57,
     97, 98, 99, 100, 101, 102, 103, 104, 105, 106, 107,
     108, 109, 110, 111, 112, 113, 114, 115, 116, 117, 118 >>

\* Variant: the table left at its initial zeros, the 0xFF fill omitted.
DECODING_unfilled ==
  [ c \in 0..255 |->
      IF \E i \in 0..31 : At(ENCODING, i) = c
      THEN CHOOSE i \in 0..31 : At(ENCODING, i) = c
      ELSE 0 ]

\* 256 entries, 0xFF everywhere but at the alphabet's characters.
DECODING ==
  [ c \in 0..255 |->
      IF \E i \in 0..31 : At(ENCODING, i) = c
      THEN CHOOSE i \in 0..31 : At(ENCODING, i) = c
      ELSE 255 ]

(* ---------------- Xid: construction from bytes and parts --------------- *)

\* Default for Xid: twelve zero bytes.
Default == [ i \in 1..SIZEOF_RAW |-> 0 ]

\* From<T: AsRef<[u8]>>: the first SIZEOF_RAW bytes of the data.
From(data) == [ i \in 1..SIZEOF_RAW |-> data[i] ]

\* Variant: the timestamp written little-endian.
from_parts_le(ts, mid, pid, obj) ==
  << Byte0(ts), Byte1(ts), Byte2(ts), Byte3(ts),
     At(mid, 0), At(mid, 1), At(mid, 2),
     Byte1(pid), Byte0(pid),
     Byte2(obj), Byte1(obj), Byte0(obj) >>

\* Variant: the two process bytes stored in the opposite order.
from_parts_pid_swapped(ts, mid, pid, obj) ==
  << Byte3(ts), Byte2(ts), Byte1(ts), Byte0(ts),
     At(mid, 0), At(mid, 1), At(mid, 2),
     Byte0(pid), Byte1(pid),
     Byte2(obj), Byte1(obj), Byte0(obj) >>

\* u32 -> u8 casts truncate; write_u32::<BigEndian> stores the high byte first.
from_parts(ts, mid, pid, obj) ==
  << Byte3(ts), Byte2(ts), Byte1(ts), Byte0(ts),
     At(mid, 0), At(mid, 1), At(mid, 2),
     Byte1(pid), Byte0(pid),
     Byte2(obj), Byte1(obj), Byte0(obj) >>

\* The #[cfg(test)] accessors; each u32 result is again a pair.
timestamp(x) == << At(x, 0) * U8 + At(x, 1), At(x, 2) * U8 + At(x, 3) >>

machine(x) == << At(x, 4), At(x, 5), At(x, 6) >>

process(x) == << 0, At(x, 7) * U8 + At(x, 8) >>

counter(x) == << At(x, 9), BitOr(At(x, 10) * U8, At(x, 11)) >>

(* ---------------- the codec ------------------------------------------- *)

enc(i) == At(ENCODING, i)

\* Variant: the last symbol taken from byte 11 without the shift by 4.
encode_last_unshifted(bytes) ==
  << enc(Shr(At(bytes, 0), 3)),
     enc(BitOr(BitAnd(Shr(At(bytes, 1), 6), 31), BitAnd(Shl8(At(bytes, 0), 2), 31))),
     enc(BitAnd(Shr(At(bytes, 1), 1), 31)),
     enc(BitOr(BitAnd(Shr(At(bytes, 2), 4), 31), BitAnd(Shl8(At(bytes, 1), 4), 31))),
     enc(BitOr(Shr(At(bytes, 3), 7), BitAnd(Shl8(At(bytes, 2), 1), 31))),
     enc(BitAnd(Shr(At(bytes, 3), 2), 31)),
     enc(BitOr(Shr(At(bytes, 4), 5), BitAnd(Shl8(At(bytes, 3), 3), 31))),
     enc(BitAnd(At(bytes, 4), 31)),
     enc(Shr(At(bytes, 5), 3)),
     enc(BitOr(BitAnd(Shr(At(bytes, 6), 6), 31), BitAnd(Shl8(At(bytes, 5), 2), 31))),
     enc(BitAnd(Shr(At(bytes, 6), 1), 31)),
     enc(BitOr(BitAnd(Shr(At(bytes, 7), 4), 31), BitAnd(Shl8(At(bytes, 6), 4), 31))),
     enc(BitOr(Shr(At(bytes, 8), 7), BitAnd(Shl8(At(bytes, 7), 1), 31))),
     enc(BitAnd(Shr(At(bytes, 8), 2), 31)),
     enc(BitOr(Shr(At(bytes, 9), 5), BitAnd(Shl8(At(bytes, 8), 3), 31))),
     enc(BitAnd(At(bytes, 9), 31)),
     enc(Shr(At(bytes, 10), 3)),
     enc(BitOr(BitAnd(Shr(At(bytes, 11), 6), 31), BitAnd(Shl8(At(bytes, 10), 2), 31))),
     enc(BitAnd(Shr(At(bytes, 11), 1), 31)),
     enc(BitAnd(At(bytes, 11), 31)) >>

encode(bytes) ==
  << enc(Shr(At(bytes, 0), 3)),
     enc(BitOr(BitAnd(Shr(At(bytes, 1), 6), 31), BitAnd(Shl8(At(bytes, 0), 2), 31))),
     enc(BitAnd(Shr(At(bytes, 1), 1), 31)),
     enc(BitOr(BitAnd(Shr(At(bytes, 2), 4), 31), BitAnd(Shl8(At(bytes, 1), 4), 31))),
     enc(BitOr(Shr(At(bytes, 3), 7), BitAnd(Shl8(At(bytes, 2), 1), 31))),
     enc(BitAnd(Shr(At(bytes, 3), 2), 31)),
     enc(BitOr(Shr(At(bytes, 4), 5), BitAnd(Shl8(At(bytes, 3), 3), 31))),
     enc(BitAnd(At(bytes, 4), 31)),
     enc(Shr(At(bytes, 5), 3)),
     enc(BitOr(BitAnd(Shr(At(bytes, 6), 6), 31), BitAnd(Shl8(At(bytes, 5), 2), 31))),
     enc(BitAnd(Shr(At(bytes, 6), 1), 31)),
     enc(BitOr(BitAnd(Shr(At(bytes, 7), 4), 31), BitAnd(Shl8(At(bytes, 6), 4), 31))),
     enc(BitOr(Shr(At(bytes, 8), 7), BitAnd(Shl8(At(bytes, 7), 1), 31))),
     enc(BitAnd(Shr(At(bytes, 8), 2), 31)),
     enc(BitOr(Shr(At(bytes, 9), 5), BitAnd(Shl8(At(bytes, 8), 3), 31))),
     enc(BitAnd(At(bytes, 9), 31)),
     enc(Shr(At(bytes, 10), 3)),
     enc(BitOr(BitAnd(Shr(At(bytes, 11), 6), 31), BitAnd(Shl8(At(bytes, 10), 2), 31))),
     enc(BitAnd(Shr(At(bytes, 11), 1), 31)),
     enc(BitAnd(Shl8(At(bytes, 11), 4), 31)) >>

dec(src, i) == DECODING[At(src, i)]

\* Variant: symbol 6 shifted by 4 instead of 5 into byte 4.
decode_shift_slip(src) ==
  << BitOr(Shl8(dec(src, 0), 3), Shr(dec(src, 1), 2)),
     BitOr(BitOr(Shl8(dec(src, 1), 6), Shl8(dec(src, 2), 1)), Shr(dec(src, 3), 4)),
     BitOr(Shl8(dec(src, 3), 4), Shr(dec(src, 4), 1)),
     BitOr(BitOr(Shl8(dec(src, 4), 7), Shl8(dec(src, 5), 2)), Shr(dec(src, 6), 3)),
     BitOr(Shl8(dec(src, 6), 4), dec(src, 7)),
     BitOr(Shl8(dec(src, 8), 3), Shr(dec(src, 9), 2)),
     BitOr(BitOr(Shl8(dec(src, 9), 6), Shl8(dec(src, 10), 1)), Shr(dec(src, 11), 4)),
     BitOr(Shl8(dec(src, 11), 4), Shr(dec(src, 12), 1)),
     BitOr(BitOr(Shl8(dec(src, 12), 7), Shl8(dec(src, 13), 2)), Shr(dec(src, 14), 3)),
     BitOr(Shl8(dec(src, 14), 5), dec(src, 15)),
     BitOr(Shl8(dec(src, 16), 3), Shr(dec(src, 17), 2)),
     BitOr(BitOr(Shl8(dec(src, 17), 6), Shl8(dec(src, 18), 1)), Shr(dec(src, 19), 4)) >>

decode(src) ==
  << BitOr(Shl8(dec(src, 0), 3), Shr(dec(src, 1), 2)),
     BitOr(BitOr(Shl8(dec(src, 1), 6), Shl8(dec(src, 2), 1)), Shr(dec(src, 3), 4)),
     BitOr(Shl8(dec(src, 3), 4), Shr(dec(src, 4), 1)),
     BitOr(BitOr(Shl8(dec(src, 4), 7), Shl8(dec(src, 5), 2)), Shr(dec(src, 6), 3)),
     BitOr(Shl8(dec(src, 6), 5), dec(src, 7)),
     BitOr(Shl8(dec(src, 8), 3), Shr(dec(src, 9), 2)),
     BitOr(BitOr(Shl8(dec(src, 9), 6), Shl8(dec(src, 10), 1)), Shr(dec(src, 11), 4)),
     BitOr(Shl8(dec(src, 11), 4), Shr(dec(src, 12), 1)),
     BitOr(BitOr(Shl8(dec(src, 12), 7), Shl8(dec(src, 13), 2)), Shr(dec(src, 14), 3)),
     BitOr(Shl8(dec(src, 14), 5), dec(src, 15)),
     BitOr(Shl8(dec(src, 16), 3), Shr(dec(src, 17), 2)),
     BitOr(BitOr(Shl8(dec(src, 17), 6), Shl8(dec(src, 18), 1)), Shr(dec(src, 19), 4)) >>

\* Display::fmt / to_string: the encoded buffer, read as text byte for byte.
to_string(x) == encode(x)

\* The derived Ord of Xid and the Ord of String: byte-wise lexicographic order.
Less(a, b) ==
  \/ \E i \in 1..Len(a) :
       /\ i <= Len(b)
       /\ a[i] < b[i]
       /\ \A j \in 1..(i - 1) : a[j] = b[j]
  \/ /\ Len(a) < Len(b)
     /\ \A j \in 1..Len(a) : a[j] = b[j]

(* ======================================================================= *)
(* State                                                                   *)
(* ======================================================================= *)

VARIABLES
  id1, id2,      \* two Xid values (tests: id1, id2)
  buf,           \* the caller's SIZEOF_STR-byte buffer
  poked,         \* 0-based position the caller overwrote in buf, or -1
  cpc,           \* position of the encode/decode scenario
  s1, s2,        \* id1.to_string(), id2.to_string(); <<>> before the call
  args,          \* PartsTest: timestamp, machine, process, counter
  xid,           \* the Xid from_parts returned
  got,           \* what the four accessors returned
  ppc,           \* position of PartsTest::run
  COUNTER,       \* the AtomicU32, a u32 pair
  MACHINE,       \* lazy static: Uninit or three bytes
  PROCESS,       \* lazy static: Uninit, Poisoned or a u32 pair
  pc,            \* per thread: "idle", "read" (now read), "panicked"
  now,           \* per thread: the seconds ::now() returned (u64 triple)
  ids,           \* the identifiers Xid::new returned, in order of return
  nfetch,        \* number of fetch_add operations so far, as <<2^24s, rest>>
  bursts         \* number of discarded runs of calls so far

vars ==
  << id1, id2, buf, poked, cpc, s1, s2, args, xid, got, ppc,
     COUNTER, MACHINE, PROCESS, pc, now, ids, nfetch, bursts >>

codecVars == << id1, id2, buf, poked, cpc, s1, s2 >>
partsVars == << args, xid, got, ppc >>
genVars == << COUNTER, MACHINE, PROCESS, pc, now, ids, nfetch, bursts >>

Threads == { 1, 2 }

\* A lazy static before its first use, and one whose initializer panicked.
Uninit == << >>
Poisoned == << -1 >>

\* The statics before first use, no thread running.
GenIdle ==
  /\ COUNTER = << 0, 0 >>
  /\ MACHINE = Uninit
  /\ PROCESS = Uninit
  /\ pc = [ t \in Threads |-> "idle" ]
  /\ now = [ t \in Threads |-> << 0, 0, 0 >> ]
  /\ ids = << >>
  /\ nfetch = << 0, 0 >>
  /\ bursts = 0

NoArgs == [ timestamp |-> << 0, 0 >>, machine |-> << 0, 0, 0 >>,
            process |-> << 0, 0 >>, counter |-> << 0, 0 >> ]

PartsIdle ==
  /\ args = NoArgs
  /\ xid = Default
  /\ got = NoArgs
  /\ ppc = "idle"

CodecIdle ==
  /\ id1 = Default
  /\ id2 = Default
  /\ buf = [ i \in 1..SIZEOF_STR |-> 0 ]
  /\ poked = -1
  /\ cpc = "idle"
  /\ s1 = << >>
  /\ s2 = << >>

(* ======================================================================= *)
(* Inputs                                                                  *)
(* ======================================================================= *)

Zeros == [ i \in 1..SIZEOF_RAW |-> 0 ]
Ones == [ i \in 1..SIZEOF_RAW |-> 255 ]
\* The bytes of test_from_parts' first case.
Vector == << 77, 136, 225, 91, 96, 244, 134, 228, 40, 65, 45, 201 >>

Bases == { Zeros, Ones, Vector }
ByteVals == { 0, 1, 31, 128, 170, 255 }

\* Byte strings handed to Xid::from: a base, or one with a byte replaced.
IdSet ==
  Bases \cup
  { [ b EXCEPT ![p] = v ] : b \in Bases, p \in 1..SIZEOF_RAW, v \in ByteVals }

\* Bytes a caller may write into the buffer: '0' '1' 'f' 'g' 'v' of the
\* alphabet, and 'w', 'A', NUL, 0xFF outside it.
PokeBytes == { 48, 49, 102, 103, 118, 119, 65, 0, 255 }

(* ======================================================================= *)
(* Encode / decode scenario (test_encode_decode, with a caller that may    *)
(* overwrite one byte of the buffer between the two calls)                 *)
(* ======================================================================= *)

InitCodec ==
  /\ id1 \in IdSet
  /\ id2 \in { Zeros, Ones }
  /\ buf = [ i \in 1..SIZEOF_STR |-> 0 ]
  /\ poked = -1
  /\ cpc = "made"
  /\ s1 = << >>
  /\ s2 = << >>
  /\ PartsIdle
  /\ GenIdle

\* id1.encode(&mut buf)
Encode ==
  /\ cpc = "made"
  /\ buf' = encode(id1)
  /\ cpc' = "encoded"
  /\ UNCHANGED << id1, id2, poked, s1, s2 >>
  /\ UNCHANGED << partsVars, genVars >>

\* The caller writes byte c at position i of its buffer.
Poke(i, c) ==
  /\ cpc = "encoded"
  /\ poked = -1
  /\ buf' = [ buf EXCEPT ![i + 1] = c ]
  /\ poked' = i
  /\ UNCHANGED << id1, id2, cpc, s1, s2 >>
  /\ UNCHANGED << partsVars, genVars >>

\* id2.decode(&buf)
Decode ==
  /\ cpc \in { "made", "encoded" }
  /\ id2' = decode(buf)
  /\ cpc' = "decoded"
  /\ UNCHANGED << id1, buf, poked, s1, s2 >>
  /\ UNCHANGED << partsVars, genVars >>

NextCodec ==
  \/ Encode
  \/ \E i \in 0..(SIZEOF_STR - 1), c \in PokeBytes : Poke(i, c)
  \/ Decode

SpecCodec == InitCodec /\ [][NextCodec]_vars

(* ======================================================================= *)
(* Two identifiers compared as bytes and as strings (test_ord's asserts)   *)
(* ======================================================================= *)

InitOrd ==
  /\ id1 \in IdSet
  /\ id2 \in IdSet
  /\ buf = [ i \in 1..SIZEOF_STR |-> 0 ]
  /\ poked = -1
  /\ cpc = "idle"
  /\ s1 = << >>
  /\ s2 = << >>
  /\ PartsIdle
  /\ GenIdle

ToString1 ==
  /\ s1 = << >>
  /\ s1' = to_string(id1)
  /\ UNCHANGED << id1, id2, buf, poked, cpc, s2 >>
  /\ UNCHANGED << partsVars, genVars >>

ToString2 ==
  /\ s2 = << >>
  /\ s2' = to_string(id2)
  /\ UNCHANGED << id1, id2, buf, poked, cpc, s1 >>
  /\ UNCHANGED << partsVars, genVars >>

NextOrd == ToString1 \/ ToString2

SpecOrd == InitOrd /\ [][NextOrd]_vars

(* ======================================================================= *)
(* PartsTest::run                                                          *)
(* ======================================================================= *)

TimestampVals ==
  { << 0, 0 >>, << 19848, 57691 >>, << 32768, 0 >>, << 1, 2 >>, U32Max }
MachineVals ==
  { << 0, 0, 0 >>, << 96, 244, 134 >>, << 170, 187, 204 >>, << 255, 255, 255 >> }
ProcessVals ==
  { << 0, 0 >>, << 0, 58408 >>, << 0, 56814 >>, << 1, 58408 >>, U32Max }
CounterVals ==
  { << 0, 0 >>, << 0, 1 >>, << 65, 11721 >>, << 255, 65535 >>, << 256, 0 >>,
    U32Max }

InitParts ==
  /\ args \in [ timestamp : TimestampVals, machine : MachineVals,
                process : ProcessVals, counter : CounterVals ]
  /\ xid = Default
  /\ got = NoArgs
  /\ ppc = "start"
  /\ CodecIdle
  /\ GenIdle

RunFromParts ==
  /\ ppc = "start"
  /\ xid' = from_parts(args.timestamp, args.machine, args.process, args.counter)
  /\ ppc' = "packed"
  /\ UNCHANGED << args, got >>
  /\ UNCHANGED << codecVars, genVars >>

RunAccessors ==
  /\ ppc = "packed"
  /\ got' = [ timestamp |-> timestamp(xid), machine |-> machine(xid),
              process |-> process(xid), counter |-> counter(xid) ]
  /\ ppc' = "read"
  /\ UNCHANGED << args, xid >>
  /\ UNCHANGED << codecVars, genVars >>

NextParts == RunFromParts \/ RunAccessors

SpecParts == InitParts /\ [][NextParts]_vars

(* ======================================================================= *)
(* The process-wide statics and Xid::new                                   *)
(* ======================================================================= *)

\* Bound on what one behaviour follows: calls of Xid::new that returned or
\* are in progress, plus discarded runs of calls.
MaxCalls == 3

\* crc32::checksum_ieee: reflected CRC-32, polynomial 0xEDB88320, on a u32 pair.
RECURSIVE CrcShift(_, _)
CrcShift(c, n) ==
  IF n = 0 THEN c
  ELSE LET h == c[1] \div 2
           l == (c[2] \div 2) + (c[1] % 2) * 32768
       IN  IF c[2] % 2 = 1
           THEN CrcShift(<< BitXor(h, 60856), BitXor(l, 33568) >>, n - 1)
           ELSE CrcShift(<< h, l >>, n - 1)

RECURSIVE CrcUpdate(_, _, _)
CrcUpdate(c, bytes, i) ==
  IF i > Len(bytes) THEN c
  ELSE CrcUpdate(CrcShift(<< c[1], BitXor(c[2], bytes[i]) >>, 8), bytes, i + 1)

checksum_ieee(bytes) ==
  LET c == CrcUpdate(U32Max, bytes, 1)
  IN  << BitXor(c[1], U16 - 1), BitXor(c[2], U16 - 1) >>

\* What the process finds around it when a static is first used.
\* process::id(): 1 (init of a container) or 0x1e428.
Pids == { << 0, 1 >>, << 1, 58408 >> }
\* fs::File::open("/proc/1/cpuset") and io::copy from it.
OpenResults == { "ok", "err" }
ReadResults == { "ok", "err" }
\* Contents of the file: empty, "/", "/\n".
CpusetContents == { << >>, << 47 >>, << 47, 10 >> }
\* hostname::get_hostname(): Some or None; the MD5 digest of the host name
\* (here of "localhost") and the bytes thread_rng() fills in are inputs.
HostResults == { "some", "none" }
HostDigest ==
  << 66, 26, 169, 14, 7, 159, 163, 38, 182, 73, 79, 129, 42, 209, 62, 121 >>
RandomMid == << 170, 187, 204 >>

\* The closure getpid of PROCESS: a u32 pair, or Poisoned when the
\* unwrap() of io::copy panics inside the initializer.
getpid(pid, open, read, contents) ==
  IF pid = << 0, 1 >> /\ open = "ok"
  THEN IF read = "err" THEN Poisoned
       ELSE IF Len(contents) > 1 THEN checksum_ieee(contents)
       ELSE pid
  ELSE pid

\* The closure getmid of MACHINE and the copy of its first three bytes.
getmid(host) == IF host = "some" THEN HostDigest ELSE RandomMid

machine_init(host) ==
  LET id == getmid(host) IN << At(id, 0), At(id, 1), At(id, 2) >>

\* Dereferencing a lazy static: its value, or every outcome of the
\* initializer on first use.  A poisoned static panics on every later use.
DerefMACHINE ==
  IF MACHINE = Uninit THEN { machine_init(h) : h \in HostResults }
  ELSE { MACHINE }

DerefPROCESS ==
  IF PROCESS = Uninit
  THEN { getpid(p, o, r, c) :
           p \in Pids, o \in OpenResults, r \in ReadResults,
           c \in CpusetContents }
  ELSE { PROCESS }

\* COUNTER's initializer: three random bytes, so a value below 2^24.
Seeds == { << 0, 0 >>, << 255, 65534 >>, << 255, 65535 >> }

\* Seconds since the epoch ::now() may return: 0x4D88E1FF, 0x4D88E200 and
\* 2^32 (7 February 2106).
Times == { << 0, 19848, 57855 >>, << 0, 19848, 57856 >>, << 1, 0, 0 >> }

\* Lengths of the runs of calls whose results are dropped: 2^24 - 1 and
\* 2^32 - 2^24.
BurstSizes == { << 255, 65535 >>, << 65280, 0 >> }

\* Variant: the counter read but not advanced.
fetch_add_lost(c) == c

\* COUNTER.fetch_add(1, SeqCst): the stored value afterwards (it wraps).
fetch_add(c) == WrappingAdd(c, << 0, 1 >>)

\* Variant: old passed on without the increment.
old_plus_0(old) == old

\* old + 1, where it does not overflow or overflow checks are off.
old_plus_1(old) == WrappingAdd(old, << 0, 1 >>)

\* nfetch advanced by k (a u32 pair) operations.
Advance(n, k) ==
  << n[1] + (k[1] \div U8) + ((n[2] + Low24(k)) \div U24),
     (n[2] + Low24(k)) % U24 >>

InitGen ==
  /\ COUNTER \in Seeds
  /\ MACHINE = Uninit
  /\ PROCESS = Uninit
  /\ pc = [ t \in Threads |-> "idle" ]
  /\ now = [ t \in Threads |-> << 0, 0, 0 >> ]
  /\ ids = << >>
  /\ nfetch = << 0, 0 >>
  /\ bursts = 0
  /\ CodecIdle
  /\ PartsIdle

\* let now = ::now().as_secs()  (the cast to u32 is applied in Pack)
Followed ==
  Len(ids) + Cardinality({ u \in Threads : pc[u] = "read" }) + bursts

ReadNow(t, secs) ==
  /\ pc[t] = "idle"
  /\ Followed < MaxCalls
  /\ pc' = [ pc EXCEPT ![t] = "read" ]
  /\ now' = [ now EXCEPT ![t] = secs ]
  /\ UNCHANGED << COUNTER, MACHINE, PROCESS, ids, nfetch, bursts >>
  /\ UNCHANGED << codecVars, partsVars >>

\* let old = COUNTER.fetch_add(1, SeqCst);
\* Xid::from_parts(now, *MACHINE, *PROCESS, old + 1)
\* The arguments are evaluated left to right: MACHINE is initialized before
\* PROCESS, and old + 1 is computed last.  checked: the build has overflow
\* checks on (debug) or off (release).  After the fetch_add the call works on
\* its locals and on the statics, which are written once, so the rest of the
\* call is part of the same step.
FetchAddAndPack(t) ==
  /\ pc[t] = "read"
  /\ \E m \in DerefMACHINE, p \in DerefPROCESS, checked \in BOOLEAN :
       LET old == COUNTER IN
       /\ COUNTER' = fetch_add(COUNTER)
       /\ nfetch' = Advance(nfetch, << 0, 1 >>)
       /\ MACHINE' = m
       /\ PROCESS' = p
       /\ IF p = Poisoned \/ (checked /\ Overflows(old, << 0, 1 >>))
          THEN /\ pc' = [ pc EXCEPT ![t] = "panicked" ]
               /\ ids' = ids
          ELSE /\ pc' = [ pc EXCEPT ![t] = "idle" ]
               /\ ids' = Append(ids,
                    [ id |-> from_parts(AsU32(now[t]), m, p, old_plus_1(old)),
                      secs |-> now[t], old |-> old, n |-> nfetch, t |-> t ])
  /\ UNCHANGED << now, bursts >>
  /\ UNCHANGED << codecVars, partsVars >>

\* A run of k calls of Xid::new by a thread outside Threads whose results are
\* dropped; taken only once the statics are initialized and while the stored
\* counter does not pass u32::MAX within the run.
NewDiscard(k) ==
  /\ Followed < MaxCalls
  /\ MACHINE # Uninit
  /\ PROCESS \notin { Uninit, Poisoned }
  /\ ~Overflows(COUNTER, k)
  /\ COUNTER' = WrappingAdd(COUNTER, k)
  /\ nfetch' = Advance(nfetch, k)
  /\ bursts' = bursts + 1
  /\ UNCHANGED << MACHINE, PROCESS, pc, now, ids >>
  /\ UNCHANGED << codecVars, partsVars >>

NextGen ==
  \/ \E t \in Threads, secs \in Times : ReadNow(t, secs)
  \/ \E t \in Threads : FetchAddAndPack(t)
  \/ \E k \in BurstSizes : NewDiscard(k)

SpecGen == InitGen /\ [][NextGen]_vars

(* ======================================================================= *)
(* Properties                                                              *)
(* ======================================================================= *)

\* Bit j (0 = most significant) of the 96-bit string of the bytes of x;
\* 0 outside it.
Bit(x, j) ==
  IF j < 0 \/ j >= 8 * SIZEOF_RAW THEN 0
  ELSE (x[(j \div 8) + 1] \div Pow2(7 - (j % 8))) % 2

\* The k-th 5-bit group of the 96 bits followed by four zero bits.
GroupOf(x, k) ==
  16 * Bit(x, 5 * k) + 8 * Bit(x, 5 * k + 1) + 4 * Bit(x, 5 * k + 2)
    + 2 * Bit(x, 5 * k + 3) + Bit(x, 5 * k + 4)

\* The k-th 5-bit group of four zero bits followed by the 96 bits.
GroupPadFirst(x, k) ==
  16 * Bit(x, 5 * k - 4) + 8 * Bit(x, 5 * k - 3) + 4 * Bit(x, 5 * k - 2)
    + 2 * Bit(x, 5 * k - 1) + Bit(x, 5 * k)

InAlphabet(c) == \E i \in 1..32 : ENCODING[i] = c
Symbols == 0..(SIZEOF_STR - 1)
AllInAlphabet(b) == \A k \in Symbols : InAlphabet(At(b, k))

\* The value of the three counter bytes of an identifier.
CounterField(x) == At(x, 9) * U16 + At(x, 10) * U8 + At(x, 11)

\* ---- C1 ----------------------------------------------------------------
\* C1: decoding the buffer that encode filled from id1 into id2, whatever
\* id2 held before, makes id2 equal to id1, with the same to_string().
C1_RoundTrip ==
  (cpc = "decoded" /\ buf = encode(id1))
    => (id2 = id1 /\ to_string(id2) = to_string(id1))

\* id1 is neither of the values id2 may hold before the decode.
C1_Witness ==
  /\ cpc = "decoded"
  /\ buf = encode(id1)
  /\ id1 = Vector
  /\ id2 = Vector

\* ---- C4 ----------------------------------------------------------------
\* C4: id1 < id2 as bytes exactly when id1.to_string() < id2.to_string().
C4_StringOrderMatchesByteOrder ==
  (s1 # << >> /\ s2 # << >>) => (Less(id1, id2) <=> Less(s1, s2))

\* Two identifiers that differ in one bit of byte 11, both strings computed.
C4_Witness ==
  /\ s1 # << >>
  /\ s2 # << >>
  /\ id1 = [ Zeros EXCEPT ![12] = 0 ]
  /\ id2 = [ Zeros EXCEPT ![12] = 1 ]
  /\ Less(id1, id2)
  /\ Less(s1, s2)

\* ---- C7 ----------------------------------------------------------------
\* C7: from_parts stores the timestamp big-endian in bytes 0-3, the machine
\* bytes in 4-6, the low 16 bits of the process value in 7-8 and the low 24
\* bits of the counter value in 9-11; the accessors give back the timestamp
\* and machine, and the process and counter when they are below 2^16 and 2^24.
C7_PackAndReconstruct ==
  /\ ppc \in { "packed", "read" } =>
       /\ Len(xid) = SIZEOF_RAW
       /\ \A i \in 1..SIZEOF_RAW : xid[i] \in 0..255
       /\ At(xid, 0) * U8 + At(xid, 1) = args.timestamp[1]
       /\ At(xid, 2) * U8 + At(xid, 3) = args.timestamp[2]
       /\ << At(xid, 4), At(xid, 5), At(xid, 6) >> = args.machine
       /\ At(xid, 7) * U8 + At(xid, 8) = args.process[2]
       /\ CounterField(xid) = Low24(args.counter)
       /\ ( args = [ timestamp |-> << 19848, 57691 >>,
                     machine |-> << 96, 244, 134 >>,
                     process |-> << 0, 58408 >>,
                     counter |-> << 65, 11721 >> ]
            => xid = Vector )
  /\ ppc = "read" =>
       /\ got.timestamp = args.timestamp
       /\ got.machine = args.machine
       /\ (args.process[1] = 0 => got.process = args.process)
       /\ (args.counter[1] < U8 => got.counter = args.counter)

\* The literal case of test_from_parts, packed and read back.
C7_Witness ==
  /\ ppc = "read"
  /\ xid = Vector
  /\ got.counter = << 65, 11721 >>
  /\ got.process = << 0, 58408 >>

\* ---- C9 ----------------------------------------------------------------
\* C9 as stated: the first symbol encode writes has value 0 or 1, and decode
\* of a string over the alphabet ignores the top four bits of the first
\* symbol while every bit of the other 19 symbols reaches the output.
C9_PaddingInFirstSymbol ==
  /\ (cpc = "encoded" /\ poked = -1) => dec(buf, 0) \in { 0, 1 }
  /\ (cpc = "decoded" /\ AllInAlphabet(buf)) =>
       /\ GroupPadFirst(id2, 0) = dec(buf, 0) % 2
       /\ \A k \in Symbols \ { 0 } : GroupPadFirst(id2, k) = dec(buf, k)

\* C9 amended: the four unused bits are the low four bits of the last
\* symbol.  Each symbol encode writes is the 5-bit group of the identifier's
\* bits at its position, the last one having value 0 or 16; decode of a
\* string over the alphabet ignores the low four bits of the last symbol,
\* and every other bit of the 20 symbols reaches the output.
C9_PaddingInLastSymbol ==
  /\ (cpc = "encoded" /\ poked = -1) =>
       /\ \A k \in Symbols : dec(buf, k) = GroupOf(id1, k)
       /\ dec(buf, 19) \in { 0, 16 }
  /\ (cpc = "decoded" /\ AllInAlphabet(buf)) =>
       /\ \A k \in Symbols \ { 19 } : GroupOf(id2, k) = dec(buf, k)
       /\ GroupOf(id2, 19) = BitAnd(dec(buf, 19), 16)

\* The last symbol was overwritten with 'v' (31) and the low four bits were
\* dropped by decode; the first symbol of the string is above 1.
C9_Witness ==
  /\ cpc = "decoded"
  /\ AllInAlphabet(buf)
  /\ poked = 19
  /\ dec(buf, 19) = 31
  /\ dec(buf, 0) > 1
  /\ GroupOf(id2, 19) = 16

\* ---- C10 ---------------------------------------------------------------
\* The decode input has exactly one byte outside the alphabet, at the
\* position the caller overwrote.
OneInvalid ==
  /\ cpc = "decoded"
  /\ poked >= 0
  /\ ~InAlphabet(At(buf, poked))
  /\ \A k \in Symbols \ { poked } : InAlphabet(At(buf, k))

\* The group k of the output as far as the output holds it: the last group
\* has only its top bit there.
Kept(k, v) == IF k = 19 THEN BitAnd(v, 16) ELSE v

\* C10 as stated: the byte outside the alphabet puts 0x1F into its own group
\* and the groups of the other 19 symbols are those of their values.
C10_InvalidTouchesOwnGroupOnly ==
  OneInvalid =>
    \A k \in Symbols :
      GroupOf(id2, k) = Kept(k, IF k = poked THEN 31 ELSE dec(buf, k))

\* The bits of the group before position i that lie in the same output byte
\* as the top bit of group i, at most three: 0 of them for i in {0, 8, 16},
\* 1 for i in {5, 13}, 2 for i in {2, 10, 18}, 3 otherwise.
SpillMask(i) ==
  LET above == (5 * i) % 8
  IN  IF above >= 3 THEN 7 ELSE IF above = 2 THEN 3 ELSE above

\* C10 amended: decode signals nothing; all eight bits of the sentinel 0xFF
\* enter the output byte of the symbol's top bit, so the group of position i
\* becomes 0x1F and the low bits SpillMask(i) of the group of position i - 1
\* are forced to 1 as well; every other group is that of its symbol's value.
C10_InvalidSpillsIntoPreviousGroup ==
  OneInvalid =>
    \A k \in Symbols :
      GroupOf(id2, k) =
        Kept(k, IF k = poked THEN 31
                ELSE IF k = poked - 1
                     THEN BitOr(dec(buf, k), SpillMask(poked))
                     ELSE dec(buf, k))

\* An invalid byte at position 1 changed the group of symbol 0.
C10_Witness ==
  /\ OneInvalid
  /\ poked = 1
  /\ GroupOf(id2, 0) # dec(buf, 0)
  /\ GroupOf(id2, 1) = 31

\* ---- Generation --------------------------------------------------------
Returned == 1..Len(ids)

\* Fewer than 2^24 fetch_add operations lie between operations number a and b.
Near(a, b) ==
  \/ a[1] = b[1]
  \/ a[1] + 1 = b[1] /\ b[2] < a[2]
  \/ b[1] + 1 = a[1] /\ a[2] < b[2]

\* ---- C2 ----------------------------------------------------------------
\* C2 as stated: no two returned identifiers share the pair (timestamp,
\* counter field), so all returned identifiers are pairwise distinct.
C2_AllPairsDistinct ==
  \A i, j \in Returned :
    i # j =>
      /\ << timestamp(ids[i].id), CounterField(ids[i].id) >>
           # << timestamp(ids[j].id), CounterField(ids[j].id) >>
      /\ ids[i].id # ids[j].id

\* C2 amended: two calls whose fetch_add operations are fewer than 2^24
\* apart in the order of the atomic increments return identifiers with
\* different counter fields, hence distinct identifiers, in any interleaving.
C2_DistinctWithinCounterPeriod ==
  \A i, j \in Returned :
    (i # j /\ Near(ids[i].n, ids[j].n)) =>
      /\ CounterField(ids[i].id) # CounterField(ids[j].id)
      /\ ids[i].id # ids[j].id

\* Two threads were both between the clock read and the increment, and
\* returned identifiers of the same second.
C2_Witness ==
  \E i, j \in Returned :
    /\ i < j
    /\ ids[i].t # ids[j].t
    /\ ids[i].secs = ids[j].secs
    /\ Near(ids[i].n, ids[j].n)
    /\ ids[i].id # ids[j].id

\* ---- C3 ----------------------------------------------------------------
\* C3 as stated: an identifier generated in a strictly earlier second is
\* smaller, as bytes and as string, whatever the counters.
C3_EarlierSecondIsSmaller ==
  \A i, j \in Returned :
    Less(ids[i].secs, ids[j].secs) =>
      /\ Less(ids[i].id, ids[j].id)
      /\ Less(to_string(ids[i].id), to_string(ids[j].id))

\* C3 amended: the same, for two seconds with the same bits above bit 31
\* (both before 2^32 seconds after the epoch, 7 February 2106).
C3_EarlierSecondIsSmallerWithinEra ==
  \A i, j \in Returned :
    (Less(ids[i].secs, ids[j].secs) /\ ids[i].secs[1] = ids[j].secs[1]) =>
      /\ Less(ids[i].id, ids[j].id)
      /\ Less(to_string(ids[i].id), to_string(ids[j].id))

\* The identifier of the earlier second has the larger counter field.
C3_Witness ==
  \E i, j \in Returned :
    /\ Less(ids[i].secs, ids[j].secs)
    /\ ids[i].secs[1] = ids[j].secs[1]
    /\ CounterField(ids[i].id) > CounterField(ids[j].id)
    /\ Less(ids[i].id, ids[j].id)

\* ---- C5 ----------------------------------------------------------------
\* Identifiers i and j were returned to the same thread by consecutive calls.
Consecutive(i, j) ==
  /\ i < j
  /\ ids[i].t = ids[j].t
  /\ \A k \in Returned : (i < k /\ k < j) => ids[k].t # ids[i].t

\* C5, in the case the claim names: consecutive calls of one thread that fall
\* in the same second return increasing identifiers, as bytes and as strings,
\* for any starting value of the counter.
C5_ConsecutiveIncreasingInOneSecond ==
  \A i, j \in Returned :
    (Consecutive(i, j) /\ ids[i].secs = ids[j].secs) =>
      /\ Less(ids[i].id, ids[j].id)
      /\ Less(to_string(ids[i].id), to_string(ids[j].id))

\* ---- C6 ----------------------------------------------------------------
\* C6: no call of Xid::new ends in a panic.
C6_NewNeverPanics == \A t \in Threads : pc[t] # "panicked"

\* ---- C8 ----------------------------------------------------------------
\* C8: the counter field of every returned identifier is the pre-increment
\* counter plus one modulo 2^24, zero when the low 24 bits before the call
\* were 0xFFFFFF, and bytes 0-8 hold the timestamp, MACHINE and the low 16
\* bits of PROCESS whatever the counter is.
C8_CounterWraps ==
  \A i \in Returned :
    LET r == ids[i] IN
    /\ CounterField(r.id) = (Low24(r.old) + 1) % U24
    /\ (Low24(r.old) = U24 - 1 =>
          At(r.id, 9) = 0 /\ At(r.id, 10) = 0 /\ At(r.id, 11) = 0)
    /\ At(r.id, 0) * U8 + At(r.id, 1) = r.secs[2]
    /\ At(r.id, 2) * U8 + At(r.id, 3) = r.secs[3]
    /\ << At(r.id, 4), At(r.id, 5), At(r.id, 6) >> = MACHINE
    /\ At(r.id, 7) * U8 + At(r.id, 8) = PROCESS[2]

\* A call found the low 24 bits of the counter at 0xFFFFFF and the
\* identifier before it, of the same second, has counter field 0xFFFFFF.
C8_Witness ==
  \E i, j \in Returned :
    /\ Low24(ids[j].old) = U24 - 1
    /\ CounterField(ids[j].id) = 0
    /\ CounterField(ids[i].id) = U24 - 1
    /\ ids[i].secs = ids[j].secs

====
